---- MODULE Spec2Model ----
(***************************************************************************)
(* Run lifecycle engine of openai-assistants-go.                           *)
(*                                                                         *)
(*  - the SSE decode loop of pkg/runs (createRunStream and the identical   *)
(*    loop of SubmitToolOutputsStream): a goroutine reading the response   *)
(*    body line by line and pushing RunEvents into an unbuffered channel   *)
(*    that the caller ranges over;                                         *)
(*  - the two settle-wait loops of the examples (waitForRun and            *)
(*    waitForRunCompletion) polling Service.Get.                           *)
(*                                                                         *)
(* Strings the code parses are sequences of one-character strings, so      *)
(* that ReadString, TrimSpace, HasPrefix and TrimPrefix are computed on    *)
(* the bytes of the body and not assumed.                                  *)
(***************************************************************************)
EXTENDS Integers, Sequences, FiniteSets, TLC

VARIABLES
    \* ---- the wire (environment of the decoder)
    lines,        \* the lines the server wrote, each newline-terminated
    tail,         \* bytes the server wrote after the last newline
    readErr,      \* what the reader reports after the last byte: EOF or a failure
    body,         \* resp.Body: the bytes of lines and tail
    \* ---- createRunStream / SubmitToolOutputsStream
    status,       \* resp.StatusCode, 0 before the call and when Do failed
    callResult,   \* "none" | "error" (nil, err) | "channel" (events, nil)
    pc,           \* position of the decode goroutine
    pos,          \* bytes of body consumed by reader.ReadString
    reads,        \* number of ReadString calls made
    line,         \* line of line, err := reader.ReadString('\n'), untrimmed
    err,          \* err of that call, <<>> for nil
    currentEvent, \* var currentEvent string
    pending,      \* the RunEvent the goroutine is sending
    afterSend,    \* what follows that send: "loop" | "return"
    exitReason,   \* why the loop was left: "" | "done" | "eof" | "error"
    events,       \* buffer of the channel events
    chanCloses,   \* number of close(events) executed
    bodyCloses,   \* number of resp.Body.Close() executed
    sends,        \* number of sends on events that completed
    \* ---- the caller ranging over the channel
    consumer,     \* "idle" | "ranging" | "finished" | "abandoned"
    received,     \* the RunEvents the range loop has seen, in order
    \* ---- settle-wait (waitForRun, waitForRunCompletion)
    impl,         \* which settle-wait runs
    srvStatus,    \* the run's status on the server
    wpc,          \* "poll" | "sleep" | "select" | "returned"
    attempts,     \* waitForRun: i
    elapsed,      \* waitForRunCompletion: ticker periods elapsed
    tickReady,    \* waitForRunCompletion: a tick is buffered in ticker.C
    timeoutReady, \* waitForRunCompletion: timeoutChan has fired
    polls,        \* number of Service.Get calls made
    lastPolled,   \* status of the last successful Get, "" before
    wres,         \* what settle-wait returned
    startStatus,  \* the run's status when settle-wait was called
    getErrs,      \* number of Service.Get calls that returned an error
    cancelRaised, \* the caller has raised its cancellation signal
    \* ---- submitting tool outputs
    hasSubmit,    \* RequiredAction.SubmitToolOutputs is non-nil
    toolCalls,    \* RequiredAction.SubmitToolOutputs.ToolCalls
    step,         \* which submission step runs
    spc,          \* "idle" | "start" | "built" | "done"
    req,          \* the SubmitToolOutputsRequest the step built
    method,       \* the Service method the step calls
    sent,         \* bodies of the submit_tool_outputs requests sent
    subResult,    \* "none" | "run" | "events" | "error" | "panic"
    subStatus,    \* status code of the response to the POST, 0 for none
    \* ---- the driving flow of the examples: wait, submit, wait again
    fpc,          \* position of main in the flow
    actionOn,     \* statuses whose snapshots the server sends a required action with
    taken,        \* the server has taken the submitted outputs
    run,          \* main's run variable: the snapshot it holds
    actedOn,      \* status of the snapshot whose required action main acted on
    \* ---- one gateway call, and the cancel example
    op,           \* the gateway operation called
    gpc,          \* "idle" | "called" | "returned"
    httpRequests, \* number of HTTPClient.Do calls made for it
    response,     \* what Do returned: a response, or NoHTTPResponse
    result,       \* what the operation returned to its caller
    cpc,          \* position of main in the cancel example
    cancelRun     \* main's run variable in the cancel example

streamVars == <<lines, tail, readErr, body, status, callResult, pc, pos, reads,
                line, err,
                currentEvent, pending, afterSend, exitReason, events,
                chanCloses, bodyCloses, sends, consumer, received>>
waitVars == <<impl, srvStatus, wpc, attempts, elapsed, tickReady, timeoutReady,
              polls, lastPolled, wres, startStatus, getErrs, cancelRaised>>
subVars == <<hasSubmit, toolCalls, step, spc, req, method, sent, subResult,
             subStatus>>
flowVars == <<fpc, actionOn, taken, run, actedOn>>
gwVars == <<op, gpc, httpRequests, response, result, cpc, cancelRun>>
vars == <<streamVars, waitVars, subVars, flowVars, gwVars>>

----------------------------------------------------------------------------
(* Bounds of the model *)

\* most newline-terminated lines in a response body
MaxLines == 3

\* the same, for the streams followed under fair scheduling
MaxLiveLines == 2

----------------------------------------------------------------------------
(* Strings *)

NL == "\n"
Space == {" ", "\t", "\r", NL}

EventPrefix == <<"e", "v", "e", "n", "t", ":", " ">>
DataPrefix == <<"d", "a", "t", "a", ":", " ">>
DoneToken == <<"[", "D", "O", "N", "E", "]">>
DoneName == <<"d", "o", "n", "e">>
ErrorName == <<"e", "r", "r", "o", "r">>

\* strings.HasPrefix
HasPrefix(s, p) == Len(s) >= Len(p) /\ SubSeq(s, 1, Len(p)) = p

\* strings.TrimPrefix
TrimPrefix(s, p) == IF HasPrefix(s, p) THEN SubSeq(s, Len(p) + 1, Len(s)) ELSE s

Min(S) == CHOOSE x \in S : \A y \in S : x <= y
Max(S) == CHOOSE x \in S : \A y \in S : x >= y

NonSpace(s) == {i \in 1..Len(s) : s[i] \notin Space}

\* variant: the line is used as read, newline included
TrimSpaceNone(s) == s

\* strings.TrimSpace
TrimSpace(s) ==
    IF NonSpace(s) = {} THEN <<>> ELSE SubSeq(s, Min(NonSpace(s)), Max(NonSpace(s)))

----------------------------------------------------------------------------
(* The wire: what the server handler writes into the response body *)

EOF == <<"E", "O", "F">>
\* a failure of the connection, as err.Error() spells it
ResetErr == <<"r", "e", "s", "e", "t">>

RunName == <<"r", "u", "n">>
Names == {RunName, DoneName}
\* payloads are JSON texts: not empty, no white space around them
Payloads == {<<"1">>, <<"2">>}

EventLine(n) == [kind |-> "event", text |-> n]
DataLine(p) == [kind |-> "data", text |-> p]
BlankLine == [kind |-> "blank", text |-> <<>>]
\* an SSE comment line, neither an event-name nor a data line
OtherLine == [kind |-> "other", text |-> <<":", "k">>]

LinePool ==
    {EventLine(n) : n \in Names} \cup {DataLine(p) : p \in Payloads \cup {DoneToken}}
        \cup {BlankLine, OtherLine}

\* the bytes of one line as the server writes it, newline included
Encode(l) ==
    CASE l.kind = "event" -> EventPrefix \o l.text \o <<NL>>
      [] l.kind = "data" -> DataPrefix \o l.text \o <<NL>>
      [] l.kind = "blank" -> <<NL>>
      [] OTHER -> l.text \o <<NL>>

RECURSIVE EncodeAll(_)
EncodeAll(ls) == IF ls = <<>> THEN <<>> ELSE Encode(Head(ls)) \o EncodeAll(Tail(ls))

\* bytes after the last newline: none, or a data line cut before its newline
Tails == {<<>>, DataPrefix \o <<"1">>, DataPrefix \o DoneToken}

Streams == UNION {[1..n -> LinePool] : n \in 0..MaxLines}
LiveStreams == UNION {[1..n -> LinePool] : n \in 0..MaxLiveLines}

Statuses == {200, 201, 404, 500}

----------------------------------------------------------------------------
(* createRunStream / SubmitToolOutputsStream *)

\* events := make(chan RunEvent): no buffer
ChanCap == 0

\* variant: make(chan RunEvent, 1)
HasRoomOneSlot(n) == n < ChanCap + 1

\* a send completes without a receiver while the buffer holds n < cap events
HasRoom(n) == n < ChanCap

\* variant: the status check left out
StatusOKAlways(s) == TRUE

\* resp.StatusCode != http.StatusOK, negated
StatusOK(s) == s = 200

NoEvent == [Event |-> <<>>, Data |-> <<>>]
DoneEvent == [Event |-> DoneName, Data |-> <<>>]
\* RunEvent{Event: "error", Data: fmt.Sprintf(`{"error":"%s"}`, err.Error())}
ErrorEvent(e) ==
    [Event |-> ErrorName,
     Data |-> <<"{", "\"", "e", "r", "r", "o", "r", "\"", ":", "\"">> \o e \o <<"\"", "}">>]

\* reader.ReadString('\n') after p bytes: err == nil iff a newline is left,
\* and the line read ends at the first one
NewlinesAfter(b, p) == {i \in (p + 1)..Len(b) : b[i] = NL}
HasLine(b, p) == NewlinesAfter(b, p) # {}
NextNL(b, p) == Min(NewlinesAfter(b, p))

\* variant: every read error ends the loop without an event
ReadFailureSilent(e) == [emit |-> <<>>, after |-> "return", reason |-> "error"]

\* variant: the end of the stream is announced with a "done" event
ReadFailureDoneAtEOF(e) ==
    IF e # EOF
    THEN [emit |-> <<ErrorEvent(e)>>, after |-> "return", reason |-> "error"]
    ELSE [emit |-> <<DoneEvent>>, after |-> "return", reason |-> "eof"]

\* the branch err != nil of the loop
ReadFailure(e) ==
    IF e # EOF
    THEN [emit |-> <<ErrorEvent(e)>>, after |-> "return", reason |-> "error"]
    ELSE [emit |-> <<>>, after |-> "return", reason |-> "eof"]

\* variant: the [DONE] test left out
LoopBodyNoSentinel(ln, cur) ==
    IF ln = <<>>
    THEN [cur |-> cur, emit |-> <<>>, after |-> "loop"]
    ELSE IF HasPrefix(ln, EventPrefix)
    THEN [cur |-> TrimPrefix(ln, EventPrefix), emit |-> <<>>, after |-> "loop"]
    ELSE IF HasPrefix(ln, DataPrefix)
    THEN [cur |-> cur,
          emit |-> <<[Event |-> cur, Data |-> TrimPrefix(ln, DataPrefix)]>>,
          after |-> "loop"]
    ELSE [cur |-> cur, emit |-> <<>>, after |-> "loop"]

\* variant: the name is used up by the data line it labels
LoopBodyNameUsedOnce(ln, cur) ==
    IF ln = <<>>
    THEN [cur |-> cur, emit |-> <<>>, after |-> "loop"]
    ELSE IF HasPrefix(ln, EventPrefix)
    THEN [cur |-> TrimPrefix(ln, EventPrefix), emit |-> <<>>, after |-> "loop"]
    ELSE IF HasPrefix(ln, DataPrefix)
    THEN IF TrimPrefix(ln, DataPrefix) = DoneToken
         THEN [cur |-> cur, emit |-> <<DoneEvent>>, after |-> "return"]
         ELSE [cur |-> <<>>,
               emit |-> <<[Event |-> cur, Data |-> TrimPrefix(ln, DataPrefix)]>>,
               after |-> "loop"]
    ELSE [cur |-> cur, emit |-> <<>>, after |-> "loop"]

\* variant: a blank line clears currentEvent
LoopBodyResetOnBlank(ln, cur) ==
    IF ln = <<>>
    THEN [cur |-> <<>>, emit |-> <<>>, after |-> "loop"]
    ELSE IF HasPrefix(ln, EventPrefix)
    THEN [cur |-> TrimPrefix(ln, EventPrefix), emit |-> <<>>, after |-> "loop"]
    ELSE IF HasPrefix(ln, DataPrefix)
    THEN IF TrimPrefix(ln, DataPrefix) = DoneToken
         THEN [cur |-> cur, emit |-> <<DoneEvent>>, after |-> "return"]
         ELSE [cur |-> cur,
               emit |-> <<[Event |-> cur, Data |-> TrimPrefix(ln, DataPrefix)]>>,
               after |-> "loop"]
    ELSE [cur |-> cur, emit |-> <<>>, after |-> "loop"]

\* the loop body after a successful read, on the trimmed ln
LoopBody(ln, cur) ==
    IF ln = <<>>
    THEN [cur |-> cur, emit |-> <<>>, after |-> "loop"]
    ELSE IF HasPrefix(ln, EventPrefix)
    THEN [cur |-> TrimPrefix(ln, EventPrefix), emit |-> <<>>, after |-> "loop"]
    ELSE IF HasPrefix(ln, DataPrefix)
    THEN IF TrimPrefix(ln, DataPrefix) = DoneToken
         THEN [cur |-> cur, emit |-> <<DoneEvent>>, after |-> "return"]
         ELSE [cur |-> cur,
               emit |-> <<[Event |-> cur, Data |-> TrimPrefix(ln, DataPrefix)]>>,
               after |-> "loop"]
    ELSE [cur |-> cur, emit |-> <<>>, after |-> "loop"]

\* variant: close(events) not run when the loop is left on a read error
ReturnPcNoCloseOnError(reason) == IF reason = "error" THEN "close_body" ELSE "close_events"

\* variant: the closes not deferred, and missed on the end-of-stream return
ReturnPcSkipsOnEOF(reason) == IF reason = "eof" THEN "exited" ELSE "close_events"

\* return: the deferred calls run, close(events) first, then resp.Body.Close()
ReturnPc(reason) == "close_events"

\* before the call: no request sent, no response yet
StreamInit ==
    /\ lines = <<>> /\ tail = <<>> /\ readErr = EOF /\ body = <<>>
    /\ status = 0 /\ callResult = "none" /\ pc = "none" /\ pos = 0 /\ reads = 0
    /\ line = <<>> /\ err = <<>>
    /\ currentEvent = <<>> /\ pending = NoEvent /\ afterSend = "loop"
    /\ exitReason = "" /\ events = <<>> /\ chanCloses = 0 /\ bodyCloses = 0
    /\ sends = 0 /\ consumer = "idle" /\ received = <<>>

wire == <<lines, tail, readErr, body>>

\* s.client.HTTPClient.Do(httpReq) failed: return nil, err
DoFails ==
    /\ callResult = "none"
    /\ callResult' = "error"
    /\ UNCHANGED <<wire, status, pc, pos, reads, line, err, currentEvent, pending, afterSend,
                   exitReason, events, chanCloses, bodyCloses, sends, consumer,
                   received, waitVars, subVars, flowVars,
                   gwVars>>

\* Do answered with a status and, on 200, an event stream of S that the
\* server handler writes; then the status check, make(chan RunEvent), go func()
OpenOn(S) ==
    /\ callResult = "none"
    /\ \E s \in Statuses :
        /\ status' = s
        /\ IF StatusOK(s)
           THEN /\ \E ls \in S, t \in Tails, e \in {EOF, ResetErr} :
                      /\ lines' = ls
                      /\ tail' = t
                      /\ readErr' = e
                      /\ body' = EncodeAll(ls) \o t
                /\ callResult' = "channel"
                /\ pc' = "read"
                /\ consumer' = "ranging"
                /\ UNCHANGED bodyCloses
           ELSE /\ callResult' = "error"
                /\ bodyCloses' = bodyCloses + 1
                /\ UNCHANGED <<wire, pc, consumer>>
    /\ UNCHANGED <<pos, reads, line, err, currentEvent, pending, afterSend,
                   exitReason, events, chanCloses, sends, received, waitVars, subVars, flowVars,
                   gwVars>>

Open == OpenOn(Streams)

LiveOpen == OpenOn(LiveStreams)

\* line, err := reader.ReadString('\n'): the bytes up to and including the
\* next newline, or the bytes left and the reader's error
ReadString ==
    /\ pc = "read"
    /\ reads' = reads + 1
    /\ IF HasLine(body, pos)
       THEN /\ line' = SubSeq(body, pos + 1, NextNL(body, pos))
            /\ pos' = NextNL(body, pos)
            /\ err' = <<>>
       ELSE /\ line' = SubSeq(body, pos + 1, Len(body))
            /\ pos' = Len(body)
            /\ err' = readErr
    /\ pc' = "dispatch"
    /\ UNCHANGED <<wire, status, callResult, currentEvent, pending, afterSend,
                   exitReason, events, chanCloses, bodyCloses, sends, consumer,
                   received, waitVars, subVars, flowVars,
                   gwVars>>

\* the rest of the iteration, up to its send, continue or return
Dispatch ==
    /\ pc = "dispatch"
    /\ IF err = <<>>
       THEN /\ currentEvent' = LoopBody(TrimSpace(line), currentEvent).cur
            /\ IF LoopBody(TrimSpace(line), currentEvent).emit # <<>>
               THEN /\ pending' = LoopBody(TrimSpace(line), currentEvent).emit[1]
                    /\ afterSend' = LoopBody(TrimSpace(line), currentEvent).after
                    /\ pc' = "send"
                    /\ exitReason' =
                          IF LoopBody(TrimSpace(line), currentEvent).after = "return"
                          THEN "done" ELSE exitReason
               ELSE /\ pc' = "read"
                    /\ UNCHANGED <<pending, afterSend, exitReason>>
       ELSE /\ exitReason' = ReadFailure(err).reason
            /\ UNCHANGED currentEvent
            /\ IF ReadFailure(err).emit # <<>>
               THEN /\ pending' = ReadFailure(err).emit[1]
                    /\ afterSend' = ReadFailure(err).after
                    /\ pc' = "send"
               ELSE /\ pc' = ReturnPc(ReadFailure(err).reason)
                    /\ UNCHANGED <<pending, afterSend>>
    /\ UNCHANGED <<wire, status, callResult, pos, reads, line, err, events,
                   chanCloses, bodyCloses, sends, consumer, received, waitVars, subVars, flowVars,
                   gwVars>>

\* events <- RunEvent{...}: with no buffer the send completes in the receive
SendEvent ==
    /\ pc = "send"
    /\ IF HasRoom(Len(events))
       THEN /\ events' = Append(events, pending)
            /\ UNCHANGED received
       ELSE /\ consumer = "ranging"
            /\ events = <<>>
            /\ received' = Append(received, pending)
            /\ UNCHANGED events
    /\ sends' = sends + 1
    /\ pc' = IF afterSend = "return" THEN ReturnPc(exitReason) ELSE "read"
    /\ UNCHANGED <<wire, status, callResult, pos, reads, line, err, currentEvent, pending,
                   afterSend, exitReason, chanCloses, bodyCloses, consumer, waitVars, subVars, flowVars,
                   gwVars>>

\* defer close(events)
CloseEvents ==
    /\ pc = "close_events"
    /\ chanCloses' = chanCloses + 1
    /\ pc' = "close_body"
    /\ UNCHANGED <<wire, status, callResult, pos, reads, line, err, currentEvent, pending,
                   afterSend, exitReason, events, bodyCloses, sends, consumer,
                   received, waitVars, subVars, flowVars,
                   gwVars>>

\* defer resp.Body.Close()
CloseBody ==
    /\ pc = "close_body"
    /\ bodyCloses' = bodyCloses + 1
    /\ pc' = "exited"
    /\ UNCHANGED <<wire, status, callResult, pos, reads, line, err, currentEvent, pending,
                   afterSend, exitReason, events, chanCloses, sends, consumer,
                   received, waitVars, subVars, flowVars,
                   gwVars>>

\* for event := range events: a buffered event, or the end of the loop on close
ConsumerRecv ==
    /\ consumer = "ranging"
    /\ IF events # <<>>
       THEN /\ received' = Append(received, Head(events))
            /\ events' = Tail(events)
            /\ UNCHANGED consumer
       ELSE /\ chanCloses > 0
            /\ consumer' = "finished"
            /\ UNCHANGED <<received, events>>
    /\ UNCHANGED <<wire, status, callResult, pc, pos, reads, line, err, currentEvent, pending,
                   afterSend, exitReason, chanCloses, bodyCloses, sends, waitVars, subVars, flowVars,
                   gwVars>>

\* the caller leaves the range loop early (return or break inside it)
Abandon ==
    /\ consumer = "ranging"
    /\ consumer' = "abandoned"
    /\ UNCHANGED <<wire, status, callResult, pc, pos, reads, line, err, currentEvent, pending,
                   afterSend, exitReason, events, chanCloses, bodyCloses, sends,
                   received, waitVars, subVars, flowVars,
                   gwVars>>

DecoderNext == ReadString \/ Dispatch \/ SendEvent \/ CloseEvents \/ CloseBody

StreamNext == DoFails \/ Open \/ ReadString \/ Dispatch \/ SendEvent \/ CloseEvents \/ CloseBody
                \/ ConsumerRecv \/ Abandon

----------------------------------------------------------------------------
(* Settle-wait: waitForRun and waitForRunCompletion polling Service.Get *)

\* the run-status enumeration of the wire
RunStatuses ==
    {"queued", "in_progress", "requires_action", "cancelling", "cancelled",
     "failed", "completed", "expired"}

\* a status string the enumeration does not know
UnknownStatus == "incomplete"

\* what the server may turn a status into
ServerSucc(st) ==
    CASE st = "queued" -> {"in_progress", "cancelling"}
      [] st = "in_progress" ->
            {"completed", "failed", "cancelled", "expired", "requires_action",
             "cancelling", UnknownStatus}
      [] st = "requires_action" -> {"expired"}
      [] st = "cancelling" -> {"cancelled"}
      [] OTHER -> {}

\* waitForRun: maxAttempts := 60
maxAttempts == 60

\* waitForRunCompletion: time.NewTicker(2 * time.Second)
TickerSeconds == 2

\* waitForRunCompletion(..., 60*time.Second)
TimeoutSeconds == 60

\* ticker periods of time followed after the timeout has fired
MaxOverrun == 1

NoResult == [kind |-> "none", status |-> "", err |-> ""]
Snapshot(st) == [kind |-> "snapshot", status |-> st, err |-> ""]
Failure(e) == [kind |-> "error", status |-> "", err |-> e]

\* a switch that would sleep and poll again on requires_action
WaitForRunSwitchPollsOn(st) ==
    CASE st \in {"completed", "failed", "cancelled"} -> "return"
      [] st \in {"queued", "in_progress", "requires_action"} -> "sleep"
      [] OTHER -> "unexpected"

\* waitForRun: switch run.Status
WaitForRunSwitch(st) ==
    CASE st \in {"completed", "failed", "cancelled"} -> "return"
      [] st = "requires_action" -> "return"
      [] st \in {"queued", "in_progress"} -> "sleep"
      [] OTHER -> "unexpected"

\* waitForRunCompletion: the condition of its return run, nil
CompletionStops(st) ==
    st = "completed" \/ st = "failed" \/ st = "cancelled" \/ st = "requires_action"

\* a loop that would go on polling after a failed Get
AfterGetErrorContinue == "continue"

\* both loops on a failed Get: if err != nil { return nil, err }
AfterGetError == "return"

\* no settle-wait running
WaitIdle ==
    /\ impl = "none" /\ srvStatus = "queued" /\ wpc = "returned" /\ attempts = 0
    /\ elapsed = 0 /\ tickReady = FALSE /\ timeoutReady = FALSE /\ polls = 0
    /\ lastPolled = "" /\ wres = NoResult
    /\ startStatus = "" /\ getErrs = 0 /\ cancelRaised = FALSE

\* settle-wait has just been called, on a run in any status
WaitInit ==
    /\ impl \in {"waitForRun", "waitForRunCompletion"}
    /\ srvStatus \in RunStatuses \cup {UnknownStatus}
    /\ wpc = IF impl = "waitForRun" THEN "poll" ELSE "select"
    /\ attempts = 0 /\ elapsed = 0 /\ tickReady = FALSE /\ timeoutReady = FALSE
    /\ polls = 0 /\ lastPolled = "" /\ wres = NoResult
    /\ startStatus = srvStatus /\ getErrs = 0 /\ cancelRaised = FALSE

\* the server moves the run on
ServerStep ==
    /\ impl # "none"
    /\ \E st \in ServerSucc(srvStatus) : srvStatus' = st
    /\ UNCHANGED <<impl, startStatus, cancelRaised, getErrs, wpc, attempts,
                   elapsed, tickReady, timeoutReady, polls, lastPolled, wres,
                   streamVars, subVars, flowVars,
                   gwVars>>

\* waitForRun: service.Get failed inside the loop: return nil, err
WaitForRunGetFails ==
    /\ impl = "waitForRun" /\ wpc = "poll" /\ attempts < maxAttempts
    /\ polls' = polls + 1
    /\ getErrs' = getErrs + 1
    /\ IF AfterGetError = "return"
       THEN wres' = Failure("get") /\ wpc' = "returned"
       ELSE wres' = wres /\ wpc' = "sleep"
    /\ UNCHANGED <<impl, startStatus, cancelRaised, srvStatus, attempts,
                   elapsed, tickReady, timeoutReady, lastPolled, streamVars, subVars, flowVars,
                   gwVars>>

\* waitForRun: service.Get answered, then the switch on run.Status
WaitForRunPoll ==
    /\ impl = "waitForRun" /\ wpc = "poll" /\ attempts < maxAttempts
    /\ polls' = polls + 1
    /\ lastPolled' = srvStatus
    /\ IF WaitForRunSwitch(srvStatus) = "return"
       THEN wres' = Snapshot(srvStatus) /\ wpc' = "returned"
       ELSE IF WaitForRunSwitch(srvStatus) = "sleep"
       THEN wres' = wres /\ wpc' = "sleep"
       ELSE wres' = Failure("unexpected") /\ wpc' = "returned"
    /\ UNCHANGED <<impl, startStatus, cancelRaised, getErrs, srvStatus,
                   attempts, elapsed, tickReady, timeoutReady, streamVars, subVars, flowVars,
                   gwVars>>

\* waitForRun: time.Sleep(time.Second); continue; i++
WaitForRunSleep ==
    /\ impl = "waitForRun" /\ wpc = "sleep"
    /\ attempts' = attempts + 1
    /\ elapsed' = elapsed + 1
    /\ wpc' = "poll"
    /\ UNCHANGED <<impl, startStatus, cancelRaised, getErrs, srvStatus,
                   tickReady, timeoutReady, polls, lastPolled, wres,
                   streamVars, subVars, flowVars,
                   gwVars>>

\* waitForRun: the loop ran maxAttempts times: return nil, timeout
WaitForRunTimeout ==
    /\ impl = "waitForRun" /\ wpc = "poll" /\ attempts >= maxAttempts
    /\ wres' = Failure("timeout")
    /\ wpc' = "returned"
    /\ UNCHANGED <<impl, startStatus, cancelRaised, getErrs, srvStatus,
                   attempts, elapsed, tickReady, timeoutReady, polls,
                   lastPolled, streamVars, subVars, flowVars,
                   gwVars>>

\* waitForRunCompletion: one ticker period passes: the ticker puts a tick in
\* its one-slot channel, and time.After fires once the timeout is reached
Tick ==
    /\ impl = "waitForRunCompletion" /\ wpc = "select"
    /\ elapsed < TimeoutSeconds + MaxOverrun * TickerSeconds
    /\ elapsed' = elapsed + TickerSeconds
    /\ tickReady' = TRUE
    /\ timeoutReady' = (timeoutReady \/ elapsed + TickerSeconds >= TimeoutSeconds)
    /\ UNCHANGED <<impl, startStatus, cancelRaised, getErrs, srvStatus, wpc,
                   attempts, polls, lastPolled, wres, streamVars, subVars, flowVars,
                   gwVars>>

\* waitForRunCompletion: case <-ticker.C with service.Get failing
SelectTickGetFails ==
    /\ impl = "waitForRunCompletion" /\ wpc = "select" /\ tickReady
    /\ tickReady' = FALSE
    /\ polls' = polls + 1
    /\ getErrs' = getErrs + 1
    /\ IF AfterGetError = "return"
       THEN wres' = Failure("get") /\ wpc' = "returned"
       ELSE wres' = wres /\ wpc' = "select"
    /\ UNCHANGED <<impl, startStatus, cancelRaised, srvStatus, attempts,
                   elapsed, timeoutReady, lastPolled, streamVars, subVars, flowVars,
                   gwVars>>

\* waitForRunCompletion: case <-ticker.C, service.Get answered
SelectTick ==
    /\ impl = "waitForRunCompletion" /\ wpc = "select" /\ tickReady
    /\ tickReady' = FALSE
    /\ polls' = polls + 1
    /\ lastPolled' = srvStatus
    /\ IF CompletionStops(srvStatus)
       THEN wres' = Snapshot(srvStatus) /\ wpc' = "returned"
       ELSE wres' = wres /\ wpc' = "select"
    /\ UNCHANGED <<impl, startStatus, cancelRaised, getErrs, srvStatus,
                   attempts, elapsed, timeoutReady, streamVars, subVars, flowVars,
                   gwVars>>

\* waitForRunCompletion: case <-timeoutChan
SelectTimeout ==
    /\ impl = "waitForRunCompletion" /\ wpc = "select" /\ timeoutReady
    /\ wres' = Failure("timeout")
    /\ wpc' = "returned"
    /\ UNCHANGED <<impl, startStatus, cancelRaised, getErrs, srvStatus,
                   attempts, elapsed, tickReady, timeoutReady, polls,
                   lastPolled, streamVars, subVars, flowVars,
                   gwVars>>

\* the caller raises its cancellation signal while settle-wait is waiting, in
\* time.Sleep or in the select; neither waitForRun nor waitForRunCompletion
\* takes a context or a channel through which it could see the signal
RaiseCancel ==
    /\ impl # "none" /\ wpc \in {"sleep", "select"} /\ ~cancelRaised
    /\ cancelRaised' = TRUE
    /\ UNCHANGED <<impl, startStatus, getErrs, srvStatus, wpc, attempts,
                   elapsed, tickReady, timeoutReady, polls, lastPolled, wres,
                   streamVars, subVars, flowVars,
                   gwVars>>

WaitNext ==
    \/ ServerStep \/ RaiseCancel
    \/ WaitForRunGetFails \/ WaitForRunPoll \/ WaitForRunSleep \/ WaitForRunTimeout
    \/ Tick \/ SelectTickGetFails \/ SelectTick \/ SelectTimeout

----------------------------------------------------------------------------
(* Submitting tool outputs: handleRequiresAction, submitToolOutputs, the
   submission of createStreamingRun, and Service.SubmitToolOutputs(Stream) *)

\* most tool calls in a required action
MaxToolCalls == 2

\* the tool-call ids the server hands out
ToolIds == {"call_A", "call_B"}

\* a tool-call id that belongs to no tool call of the run
ExtraId == "call_X"

\* runs.ToolCall: ID, and whether Function is non-nil
ToolCall(id, fn) == [ID |-> id, Function |-> fn]

\* the lists RequiredAction.SubmitToolOutputs.ToolCalls can be: distinct ids
ToolCallLists ==
    {tc \in UNION {[1..n -> {ToolCall(id, fn) : id \in ToolIds, fn \in BOOLEAN}] :
                      n \in 0..MaxToolCalls} :
        \A i, j \in 1..Len(tc) : i # j => tc[i].ID # tc[j].ID}

\* the ToolOutputs lists a caller of the service can hand over
OutputLists ==
    {ids \in UNION {[1..n -> ToolIds \cup {ExtraId}] : n \in 0..(MaxToolCalls + 1)} :
        \A i, j \in 1..Len(ids) : i # j => ids[i] # ids[j]}

\* runs.SubmitToolOutputsRequest; a ToolOutput is written as its ToolCallID
Request(outs, stream) == [ToolOutputs |-> outs, Stream |-> stream]
NoRequest == Request(<<>>, FALSE)

\* a Marshal that would lose the last output
MarshalTruncated(r) ==
    [tool_outputs |-> SubSeq(r.ToolOutputs, 1, Len(r.ToolOutputs) - 1),
     stream |-> IF r.Stream THEN "true" ELSE "absent"]

\* json.Marshal(req): tool_outputs in order, stream under omitempty
Marshal(r) ==
    [tool_outputs |-> r.ToolOutputs,
     stream |-> IF r.Stream THEN "true" ELSE "absent"]

\* ids of the tool calls of a list, in order
Ids(tc) == [i \in 1..Len(tc) |-> tc[i].ID]

\* submitToolOutputs: the calls the loop keeps, if call.Function != nil
HasFunction(c) == c.Function

\* the POST never got out
NoResponse == 0

\* what the POST comes to: the transport fails before the request is out, or
\* the server answers it with a status code
Outcomes == {NoResponse} \cup Statuses

\* the body the server answers a submission with: an event stream when the
\* request carries stream true, the updated run as one JSON object otherwise
ResponseKind(b) == IF b.stream = "true" THEN "sse" ELSE "json"

\* how the method reads the response body: SubmitToolOutputs decodes it into
\* a Run with SendRequest, SubmitToolOutputsStream hands it to the line reader
ReadsAs(m) == IF m = "SubmitToolOutputs" THEN "json" ELSE "sse"

\* no submission under way
SubmitIdle ==
    /\ hasSubmit = FALSE /\ toolCalls = <<>> /\ step = "none" /\ spc = "idle"
    /\ req = NoRequest /\ method = "" /\ sent = <<>> /\ subResult = "none"
    /\ subStatus = NoResponse

\* a run in requires_action has been fetched: its required action either
\* carries submit_tool_outputs with a list of tool calls or lacks it
SubmitInit ==
    /\ hasSubmit \in BOOLEAN
    /\ toolCalls \in ToolCallLists
    /\ ~hasSubmit => toolCalls = <<>>
    /\ step = "none" /\ spc = "start"
    /\ req = NoRequest /\ method = "" /\ sent = <<>> /\ subResult = "none"
    /\ subStatus = NoResponse

\* handleRequiresAction: one ToolOutput per tool call, Stream false, then
\* service.SubmitToolOutputs; an error when SubmitToolOutputs is nil
HandleRequiresAction ==
    /\ spc = "start"
    /\ step' = "handleRequiresAction"
    /\ IF ~hasSubmit
       THEN /\ subResult' = "error" /\ spc' = "done"
            /\ UNCHANGED <<req, method>>
       ELSE /\ req' = Request(Ids(toolCalls), FALSE)
            /\ method' = "SubmitToolOutputs"
            /\ spc' = "built"
            /\ UNCHANGED subResult
    /\ UNCHANGED <<hasSubmit, toolCalls, sent, subStatus, streamVars, waitVars, flowVars, gwVars>>

\* main.go submitToolOutputs, called on
\* run.RequiredAction.SubmitToolOutputs.ToolCalls: a nil pointer dereference
\* when SubmitToolOutputs is nil; else an output for each call with a
\* Function, Stream true, then service.SubmitToolOutputsStream
SubmitToolOutputsOfMain ==
    /\ spc = "start"
    /\ step' = "submitToolOutputs"
    /\ IF ~hasSubmit
       THEN /\ subResult' = "panic" /\ spc' = "done"
            /\ UNCHANGED <<req, method>>
       ELSE /\ req' = Request(Ids(SelectSeq(toolCalls, HasFunction)), TRUE)
            /\ method' = "SubmitToolOutputsStream"
            /\ spc' = "built"
            /\ UNCHANGED subResult
    /\ UNCHANGED <<hasSubmit, toolCalls, sent, subStatus, streamVars, waitVars, flowVars, gwVars>>

\* createStreamingRun, once the stream left the run in requires_action: one
\* output, for ToolCalls[0], Stream true, then service.SubmitToolOutputsStream;
\* a panic when SubmitToolOutputs is nil or ToolCalls is empty
CreateStreamingRunSubmit ==
    /\ spc = "start"
    /\ step' = "createStreamingRun"
    /\ IF ~hasSubmit \/ Len(toolCalls) = 0
       THEN /\ subResult' = "panic" /\ spc' = "done"
            /\ UNCHANGED <<req, method>>
       ELSE /\ req' = Request(<<toolCalls[1].ID>>, TRUE)
            /\ method' = "SubmitToolOutputsStream"
            /\ spc' = "built"
            /\ UNCHANGED subResult
    /\ UNCHANGED <<hasSubmit, toolCalls, sent, subStatus, streamVars, waitVars, flowVars, gwVars>>

\* another caller of the service, with a request of its own making
CallerSubmits ==
    /\ spc = "start"
    /\ step' = "caller"
    /\ \E outs \in OutputLists, stream \in BOOLEAN : req' = Request(outs, stream)
    /\ method' \in {"SubmitToolOutputs", "SubmitToolOutputsStream"}
    /\ spc' = "built"
    /\ UNCHANGED <<hasSubmit, toolCalls, sent, subResult, subStatus, streamVars,
                   waitVars, flowVars, gwVars>>

\* Service.SubmitToolOutputs: json.Marshal(req), POST, client.SendRequest
SubmitToolOutputs ==
    /\ spc = "built" /\ method = "SubmitToolOutputs"
    /\ \E o \in Outcomes :
          /\ sent' = IF o = NoResponse THEN sent ELSE Append(sent, Marshal(req))
          /\ subStatus' = o
          /\ subResult' = IF StatusOK(o) /\ ResponseKind(Marshal(req)) = ReadsAs(method)
                          THEN "run" ELSE "error"
    /\ spc' = "done"
    /\ UNCHANGED <<hasSubmit, toolCalls, step, req, method, streamVars, waitVars, flowVars, gwVars>>

\* Service.SubmitToolOutputsStream: req.Stream = true, json.Marshal(req),
\* POST, HTTPClient.Do, the status check, then the channel of events
SubmitToolOutputsStream ==
    /\ spc = "built" /\ method = "SubmitToolOutputsStream"
    /\ req' = [req EXCEPT !.Stream = TRUE]
    /\ \E o \in Outcomes :
          /\ sent' = IF o = NoResponse THEN sent ELSE Append(sent, Marshal(req'))
          /\ subStatus' = o
          /\ subResult' = IF StatusOK(o) THEN "events" ELSE "error"
    /\ spc' = "done"
    /\ UNCHANGED <<hasSubmit, toolCalls, step, method, streamVars, waitVars, flowVars, gwVars>>

SubmitNext ==
    \/ HandleRequiresAction \/ SubmitToolOutputsOfMain \/ CreateStreamingRunSubmit
    \/ CallerSubmits
    \/ SubmitToolOutputs \/ SubmitToolOutputsStream

----------------------------------------------------------------------------
(* The driving flow of the two example programs: settle-wait, one submission
   of tool outputs when the snapshot asks for it, settle-wait again *)

\* for which statuses the snapshots of the server carry a required action:
\* for requires_action alone, for none, or also for a run that was cancelled
\* while it waited for tool outputs
ActionSets == {{"requires_action"}, {}, {"requires_action", "cancelled"}}

\* a nil *runs.Run
NilRun == [Status |-> "", RequiredAction |-> FALSE, isNil |-> TRUE]

\* the Run decoded from the server's JSON for status st: Status and
\* RequiredAction are taken over as sent
RunOf(st) == [Status |-> st, RequiredAction |-> st \in actionOn, isNil |-> FALSE]

\* the condition under which main submits tool outputs: main.go tests the
\* required action alone, the other example tests the status as well
ActsOn(i, r) ==
    IF i = "waitForRun"
    THEN r.RequiredAction
    ELSE r.Status = "requires_action" /\ r.RequiredAction

\* no flow running
FlowIdle ==
    /\ fpc = "none" /\ actionOn = {"requires_action"} /\ taken = FALSE
    /\ run = NilRun /\ actedOn = ""

\* Create has returned the new run and main calls settle-wait
FlowInit ==
    /\ fpc = "wait" /\ actionOn \in ActionSets /\ taken = FALSE
    /\ run = RunOf("queued") /\ actedOn = ""

\* main after the first settle-wait: log.Fatalf on an error; else the
\* snapshot is kept in run and the submission is entered or skipped; the
\* locals of settle-wait are gone with its frame
FlowAfterWait ==
    /\ fpc = "wait" /\ wpc = "returned"
    /\ attempts' = 0 /\ elapsed' = 0 /\ tickReady' = FALSE /\ timeoutReady' = FALSE
    /\ polls' = 0
    /\ IF wres.kind = "error"
       THEN /\ fpc' = "fatal" /\ run' = NilRun
            /\ UNCHANGED <<actedOn, subVars>>
       ELSE /\ run' = RunOf(wres.status)
            /\ IF ActsOn(impl, run')
               THEN /\ fpc' = "submit"
                    /\ actedOn' = wres.status
                    /\ hasSubmit' \in BOOLEAN
                    /\ toolCalls' \in ToolCallLists
                    /\ ~hasSubmit' => toolCalls' = <<>>
                    /\ spc' = "start"
                    /\ UNCHANGED <<step, req, method, sent, subResult, subStatus>>
               ELSE /\ fpc' = "end"
                    /\ UNCHANGED <<actedOn, subVars>>
    /\ UNCHANGED <<impl, srvStatus, wpc, lastPolled, wres, startStatus, getErrs,
                   cancelRaised, actionOn, taken, streamVars, gwVars>>

\* main calls the submission step of its program
FlowSubmitStep ==
    /\ fpc = "submit"
    /\ IF impl = "waitForRun" THEN SubmitToolOutputsOfMain ELSE HandleRequiresAction

\* the server, having answered the submission with success, takes the
\* outputs and puts the run back in the queue
ServerTakesOutputs ==
    /\ fpc = "submit" /\ spc = "done" /\ subResult \in {"run", "events"} /\ ~taken
    /\ taken' = TRUE
    /\ srvStatus' = IF srvStatus = "requires_action" THEN "queued" ELSE srvStatus
    /\ UNCHANGED <<impl, startStatus, cancelRaised, getErrs, wpc, attempts,
                   elapsed, tickReady, timeoutReady, polls, lastPolled, wres,
                   fpc, actionOn, run, actedOn, streamVars, subVars, gwVars>>

\* main after the submission: log.Fatalf on its error (the panic ends the
\* program as well); else settle-wait is called a second time, the request
\* and the result of the submission being gone with its frame
FlowAfterSubmit ==
    /\ fpc = "submit" /\ spc = "done"
    /\ IF subResult \in {"error", "panic"}
       THEN /\ fpc' = "fatal"
            /\ UNCHANGED <<waitVars, subVars>>
       ELSE /\ taken
            /\ fpc' = "wait2"
            /\ wpc' = IF impl = "waitForRun" THEN "poll" ELSE "select"
            /\ attempts' = 0 /\ elapsed' = 0
            /\ tickReady' = FALSE /\ timeoutReady' = FALSE
            /\ polls' = 0 /\ lastPolled' = "" /\ wres' = NoResult
            /\ startStatus' = srvStatus /\ getErrs' = 0
            /\ hasSubmit' = FALSE /\ toolCalls' = <<>> /\ step' = "none"
            /\ spc' = "idle" /\ req' = NoRequest /\ method' = ""
            /\ sent' = <<>> /\ subResult' = "none" /\ subStatus' = NoResponse
            /\ UNCHANGED <<impl, srvStatus, cancelRaised>>
    /\ UNCHANGED <<actionOn, taken, run, actedOn, streamVars, gwVars>>

\* main after the second settle-wait: log.Fatalf on an error; else the
\* snapshot is kept in run and the program goes on to its next example
FlowAfterSecondWait ==
    /\ fpc = "wait2" /\ wpc = "returned"
    /\ attempts' = 0 /\ elapsed' = 0 /\ tickReady' = FALSE /\ timeoutReady' = FALSE
    /\ polls' = 0
    /\ IF wres.kind = "error"
       THEN fpc' = "fatal" /\ run' = NilRun
       ELSE fpc' = "end" /\ run' = RunOf(wres.status)
    /\ UNCHANGED <<impl, srvStatus, wpc, lastPolled, wres, startStatus, getErrs,
                   cancelRaised, actionOn, taken, actedOn, streamVars, subVars,
                   gwVars>>

FlowNext ==
    \/ ServerStep
    \/ WaitForRunGetFails \/ WaitForRunPoll \/ WaitForRunSleep \/ WaitForRunTimeout
    \/ Tick \/ SelectTickGetFails \/ SelectTick \/ SelectTimeout
    \/ FlowAfterWait \/ FlowSubmitStep
    \/ SubmitToolOutputs \/ SubmitToolOutputsStream
    \/ ServerTakesOutputs \/ FlowAfterSubmit \/ FlowAfterSecondWait

----------------------------------------------------------------------------
(* One gateway call: Client.SendRequest and the operations built on it, the
   two streaming operations, and the cancel example of main.go *)

\* APIError.ErrorInfo: Message, Type, Code
NoFields == [message |-> "", type |-> "", code |-> ""]
ErrorFields ==
    {[message |-> "m1", type |-> "t1", code |-> "c1"],
     [message |-> "m2", type |-> "t2", code |-> "c2"]}

\* response bodies: {"error": {...}}, the JSON object of a resource, an
\* event stream, text that is not JSON, nothing
ErrorBody(f) == [kind |-> "error_object", error |-> f]
ObjectBody == [kind |-> "object", error |-> NoFields]
StreamBody == [kind |-> "stream", error |-> NoFields]
TextBody == [kind |-> "text", error |-> NoFields]
EmptyBody == [kind |-> "empty", error |-> NoFields]
Bodies == {ErrorBody(f) : f \in ErrorFields}
            \cup {ObjectBody, StreamBody, TextBody, EmptyBody}

\* HTTPClient.Do returned an error and no response
NoHTTPResponse == [status |-> NoResponse, body |-> EmptyBody, readFails |-> FALSE]

\* what HTTPClient.Do can return; readFails: io.ReadAll of the body fails
Responses ==
    {NoHTTPResponse} \cup [status : Statuses, body : Bodies, readFails : BOOLEAN]

\* json.Unmarshal(body, &apiErr): succeeds on any JSON object, the fields
\* that the object lacks stay empty
IsJSONObject(b) == b.kind \in {"error_object", "object"}
UnmarshalAPIError(b) == IF b.kind = "error_object" THEN b.error ELSE NoFields

\* what an operation hands to its caller: the error and whether the result
\* object beside it is non-nil
NoGatewayResult == [kind |-> "none", info |-> NoFields, value |-> FALSE, wrapped |-> FALSE]
Success == [kind |-> "ok", info |-> NoFields, value |-> TRUE, wrapped |-> FALSE]
PlainError(e) == [kind |-> e, info |-> NoFields, value |-> FALSE, wrapped |-> FALSE]
APIErrorOf(f) == [kind |-> "apierror", info |-> f, value |-> FALSE, wrapped |-> FALSE]

\* Client.SendRequest, and the operation returning nil with its error
SendRequest(r) ==
    IF r = NoHTTPResponse THEN PlainError("send")
    ELSE IF r.readFails THEN PlainError("read")
    ELSE IF ~StatusOK(r.status)
         THEN IF IsJSONObject(r.body)
              THEN APIErrorOf(UnmarshalAPIError(r.body))
              ELSE PlainError("status")
    ELSE IF IsJSONObject(r.body) THEN Success ELSE PlainError("decode")

\* createRunStream, SubmitToolOutputsStream up to the return of the channel
OpenStream(r) ==
    IF r = NoHTTPResponse THEN PlainError("send")
    ELSE IF ~StatusOK(r.status) THEN PlainError("status")
    ELSE Success

\* Cancel: fmt.Errorf("SendRequest failed: %w", err)
Wrap(res) == IF res.kind = "ok" THEN res ELSE [res EXCEPT !.wrapped = TRUE]

\* the operations of the gateways
StreamOps == {"CreateAndStream", "SubmitToolOutputsStream"}
GatewayOps ==
    {"Create", "Get", "List", "Modify", "Delete", "Cancel", "SubmitToolOutputs"}
        \cup StreamOps

\* what operation o returns for response r
OpResult(o, r) ==
    IF o \in StreamOps THEN OpenStream(r)
    ELSE IF o = "Cancel" THEN Wrap(SendRequest(r))
    ELSE SendRequest(r)

\* an operation that would send the request again when it failed
DoCallsWithRetry(r) == IF OpResult("Get", r).kind = "ok" THEN 1 ELSE 2

\* number of HTTPClient.Do calls of one operation
DoCalls(r) == 1

\* the gateway call the cancel example makes at position c of main
ExampleOp(c) ==
    CASE c = "create" -> "Create"
      [] c = "cancel" -> "Cancel"
      [] OTHER -> "Delete"

\* no gateway call under way
GatewayIdle ==
    /\ op = "" /\ gpc = "idle" /\ httpRequests = 0 /\ response = NoHTTPResponse
    /\ result = NoGatewayResult /\ cpc = "none" /\ cancelRun = "nil"

\* a caller is about to call one operation, or main enters its cancel example
GatewayInit ==
    /\ op = "" /\ gpc = "idle" /\ httpRequests = 0 /\ response = NoHTTPResponse
    /\ result = NoGatewayResult /\ cpc \in {"none", "create"} /\ cancelRun = "nil"

\* the operation builds its request and hands it to HTTPClient.Do
GatewayCall ==
    /\ gpc = "idle"
    /\ cpc \in {"none", "create", "cancel", "delete_assistant", "delete_thread"}
    /\ op' \in IF cpc = "none" THEN GatewayOps ELSE {ExampleOp(cpc)}
    /\ response' \in Responses
    /\ httpRequests' = httpRequests + DoCalls(response')
    /\ result' = NoGatewayResult
    /\ gpc' = "called"
    /\ UNCHANGED <<cpc, cancelRun, streamVars, waitVars, subVars, flowVars>>

\* the operation returns to its caller
GatewayReturn ==
    /\ gpc = "called"
    /\ result' = OpResult(op, response)
    /\ gpc' = "returned"
    /\ UNCHANGED <<op, httpRequests, response, cpc, cancelRun, streamVars,
                   waitVars, subVars, flowVars>>

\* main.go: run, err = runService.Create(...); log.Fatalf on an error
ExampleAfterCreate ==
    /\ cpc = "create" /\ gpc = "returned"
    /\ cancelRun' = IF result.value THEN "run" ELSE "nil"
    /\ cpc' = IF result.kind = "ok" THEN "cancel" ELSE "fatal"
    /\ gpc' = "idle" /\ httpRequests' = 0
    /\ UNCHANGED <<op, response, result, streamVars, waitVars, subVars, flowVars>>

\* main.go: run, err = runService.Cancel(thread.ID, run.ID); if err != nil
ExampleAfterCancel ==
    /\ cpc = "cancel" /\ gpc = "returned"
    /\ cancelRun' = IF result.value THEN "run" ELSE "nil"
    /\ cpc' = IF result.kind = "ok" THEN "delete_assistant" ELSE "log"
    /\ gpc' = "idle" /\ httpRequests' = 0
    /\ UNCHANGED <<op, response, result, streamVars, waitVars, subVars, flowVars>>

\* main.go: log.Printf("Failed to cancel run %s: %v", run.ID, err), which
\* dereferences run
ExampleLogFailure ==
    /\ cpc = "log"
    /\ cpc' = IF cancelRun = "nil" THEN "panic" ELSE "delete_assistant"
    /\ UNCHANGED <<op, gpc, httpRequests, response, result, cancelRun,
                   streamVars, waitVars, subVars, flowVars>>

\* main.go, Clean up: the two Delete calls, whose errors are only logged
ExampleAfterDelete ==
    /\ cpc \in {"delete_assistant", "delete_thread"} /\ gpc = "returned"
    /\ cpc' = IF cpc = "delete_assistant" THEN "delete_thread" ELSE "end"
    /\ gpc' = "idle" /\ httpRequests' = 0
    /\ UNCHANGED <<op, response, result, cancelRun, streamVars, waitVars,
                   subVars, flowVars>>

GatewayNext ==
    \/ GatewayCall \/ GatewayReturn
    \/ ExampleAfterCreate \/ ExampleAfterCancel \/ ExampleLogFailure
    \/ ExampleAfterDelete

----------------------------------------------------------------------------
(* Specifications *)

\* one streaming call and the caller ranging over its channel
Init == StreamInit /\ WaitIdle /\ SubmitIdle /\ FlowIdle /\ GatewayIdle

Next == StreamNext

Spec == Init /\ [][Next]_vars

\* the same call under fair scheduling, on the streams of LiveStreams: the Go
\* scheduler runs every goroutine that can take a step, the decode goroutine
\* (one sequential process, DecoderNext) and the caller blocked in its range
\* loop; leaving the loop early (Abandon) is the caller's choice, not forced
LiveNext == DoFails \/ LiveOpen \/ ReadString \/ Dispatch \/ SendEvent \/ CloseEvents
              \/ CloseBody \/ ConsumerRecv \/ Abandon

FairSpec ==
    /\ Init /\ [][LiveNext]_vars
    /\ WF_vars(DecoderNext) /\ WF_vars(ConsumerRecv)

\* settle-wait on its own, no stream open
InitWait == WaitInit /\ StreamInit /\ SubmitIdle /\ FlowIdle /\ GatewayIdle

WaitSpec == InitWait /\ [][WaitNext]_vars

\* one submission of tool outputs for a run in requires_action
InitSubmit == SubmitInit /\ StreamInit /\ WaitIdle /\ FlowIdle /\ GatewayIdle

SubmitSpec == InitSubmit /\ [][SubmitNext]_vars

\* the driving flow of an example program on a run that Create just returned
InitFlow ==
    /\ WaitInit /\ srvStatus = "queued"
    /\ StreamInit /\ SubmitIdle /\ FlowInit /\ GatewayIdle

FlowSpec == InitFlow /\ [][FlowNext]_vars

\* one gateway call, or the cancel example of main.go
InitGateway == GatewayInit /\ StreamInit /\ WaitIdle /\ SubmitIdle /\ FlowIdle

GatewaySpec == InitGateway /\ [][GatewayNext]_vars

----------------------------------------------------------------------------
(* What the wire says, read off the lines the server wrote *)

Last(q) == q[Len(q)]

IsData(l) == l.kind = "data"
IsSentinel(l) == l.kind = "data" /\ l.text = DoneToken

\* index of the first sentinel line, 0 when there is none
SentinelIndex(ls) ==
    IF \E i \in 1..Len(ls) : IsSentinel(ls[i])
    THEN CHOOSE i \in 1..Len(ls) :
            IsSentinel(ls[i]) /\ \A j \in 1..(i - 1) : ~IsSentinel(ls[j])
    ELSE 0

\* the lines the decoder is meant to look at: up to and including the sentinel
UpToSentinel(ls) == IF SentinelIndex(ls) = 0 THEN ls ELSE SubSeq(ls, 1, SentinelIndex(ls))

\* indices of the data lines up to the sentinel, in wire order
RECURSIVE DataIndices(_, _)
DataIndices(ls, k) ==
    IF k > Len(UpToSentinel(ls)) THEN <<>>
    ELSE IF IsData(ls[k]) THEN <<k>> \o DataIndices(ls, k + 1)
    ELSE DataIndices(ls, k + 1)

\* the name set by the nearest event-name line before line k, "" when none
NearestName(ls, k) ==
    IF \E j \in 1..(k - 1) : ls[j].kind = "event"
    THEN ls[CHOOSE j \in 1..(k - 1) :
               ls[j].kind = "event" /\ \A m \in (j + 1)..(k - 1) : ls[m].kind # "event"].text
    ELSE <<>>

\* line k belongs to a frame (the lines since the last blank line) that has
\* an event-name line of its own before it
FrameHasOwnName(ls, k) ==
    \E j \in 1..(k - 1) :
        ls[j].kind = "event" /\ \A m \in (j + 1)..(k - 1) : ls[m].kind # "blank"

\* the event a data line stands for
EventOfLine(ls, k) ==
    IF IsSentinel(ls[k]) THEN DoneEvent
    ELSE [Event |-> NearestName(ls, k), Data |-> ls[k].text]

WireEvents(ls) == [i \in 1..Len(DataIndices(ls, 1)) |-> EventOfLine(ls, DataIndices(ls, 1)[i])]

\* a stream in the framing of the wire format that ends with the sentinel:
\* the sentinel is there, only blank lines follow it, and the name "done" is
\* not used for a frame that carries a payload
WellFormed(ls) ==
    /\ SentinelIndex(ls) > 0
    /\ \A i \in (SentinelIndex(ls) + 1)..Len(ls) : ls[i].kind = "blank"
    /\ \A i \in 1..Len(ls) :
          (IsData(ls[i]) /\ ~IsSentinel(ls[i])) => NearestName(ls, i) # DoneName

IsPrefix(p, q) == Len(p) <= Len(q) /\ SubSeq(q, 1, Len(p)) = p

NamedDone(q) == {i \in 1..Len(q) : q[i].Event = DoneName}
NamedError(q) == {i \in 1..Len(q) : q[i].Event = ErrorName}

\* the events the caller has seen that come from data lines
DataPart(q) == SelectSeq(q, LAMBDA e : e.Event # ErrorName)

----------------------------------------------------------------------------
(* Claims about the SSE decoder *)

C2_EventsInWireOrder ==
    callResult = "channel" =>
        /\ IsPrefix(DataPart(received), WireEvents(lines))
        /\ consumer = "finished" => DataPart(received) = WireEvents(lines)

C2_Witness ==
    /\ consumer = "finished"
    /\ Len(received) = 2
    /\ received[1].Data = <<"2">>
    /\ received[2].Data = <<"1">>
    /\ \E i \in 1..Len(lines) : lines[i].kind \in {"blank", "other"}

\* C3: an event delivered for a data line whose frame has no event-name line
\* of its own carries the name of the nearest event-name line before it in
\* the stream, also across blank lines.
C3_NameCarriesOver ==
    callResult = "channel" =>
        \A i \in 1..Len(DataPart(received)) :
            i <= Len(DataIndices(lines, 1)) =>
                LET k == DataIndices(lines, 1)[i]
                IN  (~IsSentinel(lines[k]) /\ ~FrameHasOwnName(lines, k)) =>
                        DataPart(received)[i].Event = NearestName(lines, k)

C3_Witness ==
    /\ Len(received) = 1
    /\ lines = <<EventLine(RunName), BlankLine, DataLine(<<"1">>)>>
    /\ received[1] = [Event |-> RunName, Data |-> <<"1">>]

\* C4: a non-success status makes the call return an error at once: no
\* channel, no goroutine, no read, no event, and the body closed.
C4_NonSuccessIsImmediateError ==
    (status # 0 /\ status \notin 200..299) =>
        /\ callResult = "error"
        /\ pc = "none"
        /\ consumer = "idle"
        /\ reads = 0 /\ sends = 0
        /\ received = <<>> /\ events = <<>>
        /\ chanCloses = 0
        /\ bodyCloses = 1

C4_Witness == status = 404 /\ callResult = "error" /\ bodyCloses = 1

\* C5: a read failure other than end-of-stream, after the channel was
\* returned, reaches the caller in-band: the call's result stays the
\* channel, the only event named "error" is the one carrying the failure
\* description, it is the last event, and the loop is left after it.
C5_ReadFailureInBand ==
    /\ NamedError(received) # {} => (exitReason = "error" /\ readErr # EOF)
    /\ exitReason = "error" =>
        /\ callResult = "channel"
        /\ readErr # EOF
        /\ pc \in {"send", "close_events", "close_body", "exited"}
        /\ Cardinality(NamedError(received)) <= 1
        /\ \A i \in NamedError(received) :
              i = Len(received) /\ received[i] = ErrorEvent(readErr)
        /\ pc # "send" => NamedError(received) # {}
        /\ consumer = "finished" => Last(received) = ErrorEvent(readErr)

C5_Witness ==
    /\ exitReason = "error"
    /\ consumer = "finished"
    /\ Len(received) = 2
    /\ Last(received) = ErrorEvent(ResetErr)

\* C6: whichever way the loop is left, the body and the channel are each
\* closed exactly once by the time the goroutine has exited, never twice, and
\* no send on the channel completes after it was closed.
C6_ClosedExactlyOnce ==
    /\ [](/\ chanCloses <= 1
          /\ bodyCloses <= 1
          /\ pc = "exited" =>
                /\ exitReason \in {"done", "eof", "error"}
                /\ chanCloses = 1
                /\ bodyCloses = 1
          /\ chanCloses = 1 => pc \in {"close_body", "exited"})
    /\ [][chanCloses >= 1 => (sends' = sends /\ pc' \notin {"read", "dispatch", "send"})]_vars

C6_Witness == pc = "exited" /\ exitReason = "eof" /\ sends = 1 /\ bodyCloses = 1

\* C7: once the caller has stopped receiving, the decode goroutine is not
\* stuck: it has exited or it can take a step.
C7_AbandonedDecoderNotStuck ==
    consumer = "abandoned" => (pc = "exited" \/ ENABLED DecoderNext)

\* C8: events are handed over one at a time: at most one decoded event waits
\* for the caller, and the decoder reads on only when every event it decoded
\* has been received.
C8_OneEventInFlight ==
    callResult = "channel" =>
        /\ Len(events) + (IF pc = "send" THEN 1 ELSE 0) <= 1
        /\ pc \in {"read", "dispatch", "send"} => sends = Len(received)

C8_Witness == pc = "send" /\ consumer = "ranging" /\ Len(received) = 1 /\ sends = 1

\* C9: with a caller that keeps receiving, every stream ends: the loop is
\* left, the channel is closed and the range loop terminates.
C9_SequenceIsFinite ==
    [](callResult = "channel" =>
          <>(\/ consumer = "abandoned"
             \/ (consumer = "finished" /\ pc = "exited" /\ chanCloses = 1)))

C9_Witness ==
    /\ consumer = "finished" /\ pc = "exited" /\ chanCloses = 1
    /\ exitReason = "error" /\ Len(lines) = 2 /\ Len(received) = 3

----------------------------------------------------------------------------
(* Claims about settle-wait *)

StoppingStatuses == {"completed", "failed", "cancelled", "expired", "requires_action"}

\* C10: settle-wait returns the last-fetched snapshot exactly when a poll
\* reports completed, failed, cancelled, expired or requires_action: after
\* such a poll it has returned that snapshot, and it returns a snapshot of no
\* other status.
C10_ReturnsExactlyOnStoppingStatus ==
    /\ lastPolled \in StoppingStatuses =>
          (wpc = "returned" /\ wres = Snapshot(lastPolled))
    /\ wres.kind = "snapshot" =>
          (wres.status = lastPolled /\ wres.status \in StoppingStatuses)

\* C11: when the run is already completed at the time settle-wait is called,
\* settle-wait returns its snapshot after exactly one poll, with no polling
\* interval waited before or after that poll.
C11_CompletedRunReturnsAtOnce ==
    (startStatus = "completed" /\ wres.kind = "snapshot") =>
        (wres = Snapshot("completed") /\ polls = 1 /\ elapsed = 0)

\* the budget of the running settle-wait is used up: waitForRun has made its
\* maxAttempts polls, the timeout of waitForRunCompletion has fired
BudgetUsedUp ==
    \/ impl = "waitForRun" /\ attempts >= maxAttempts
    \/ impl = "waitForRunCompletion" /\ timeoutReady

\* C12: settle-wait returns a snapshot only if a stopping status is observed
\* before its budget is used up; once the budget is used up with no stopping
\* status seen it issues no poll, returns no snapshot, and the only way it
\* ends is the timeout error, which it reports in no other situation.
C12_BudgetBoundsPolling ==
    /\ [](wres = Failure("timeout") => BudgetUsedUp)
    /\ [][(BudgetUsedUp /\ wres.kind = "none") =>
             (polls' = polls /\ wres' \in {wres, Failure("timeout")})]_vars

\* C13: a poll that reports a status outside the run-status enumeration makes
\* settle-wait fail at once with the unexpected-status error: it does not go
\* on polling on it and does not return it as a snapshot.
C13_UnknownStatusFailsAtOnce ==
    /\ lastPolled \notin RunStatuses \cup {""} =>
          (wpc = "returned" /\ wres = Failure("unexpected"))
    /\ wres.kind = "snapshot" => wres.status \in RunStatuses

\* C14: a poll that reports cancelling, a status of the enumeration that is
\* not a stopping one, neither fails with the unexpected-status error nor
\* returns: settle-wait goes on polling until cancelled or the budget's end.
C14_CancellingKeepsPolling ==
    lastPolled = "cancelling" =>
        /\ wres # Failure("unexpected")
        /\ wres.kind # "snapshot"
        /\ wres.kind = "none" => wpc # "returned"

\* C15: when a poll fails, settle-wait stops at once and returns that error
\* and no snapshot; no poll is issued after a failed one.
C15_FailedPollEndsWait ==
    /\ [](getErrs > 0 =>
            (getErrs = 1 /\ wpc = "returned" /\ wres = Failure("get")))
    /\ [][getErrs > 0 => polls' = polls]_vars

C15_Witness ==
    /\ getErrs = 1 /\ polls = 3 /\ wres = Failure("get")
    /\ lastPolled = "in_progress"

\* C16: settle-wait can be cancelled from outside: once the caller's
\* cancellation signal is raised while it waits, no further poll is issued and
\* it returns a Cancelled condition, within at most one polling interval.
C16_CancelStopsWait ==
    /\ [](wpc = "returned" /\ cancelRaised => wres = Failure("cancelled"))
    /\ [][cancelRaised => polls' = polls]_vars

\* C17: settle-wait does not resolve a required action itself: a poll that
\* reports requires_action makes it return that snapshot, no
\* submit-tool-outputs request has been sent by then, and once it has returned
\* it makes no further request and does not return again.
C17_RequiresActionIsHandedBack ==
    /\ [](lastPolled = "requires_action" =>
            (wpc = "returned" /\ wres = Snapshot("requires_action")))
    /\ [](impl # "none" => (sent = <<>> /\ spc = "idle"))
    /\ [][wpc = "returned" =>
            (polls' = polls /\ wres' = wres /\ sent' = sent)]_vars

C17_Witness ==
    /\ wres = Snapshot("requires_action") /\ wpc = "returned"
    /\ startStatus = "queued" /\ polls = 3 /\ sent = <<>>

----------------------------------------------------------------------------
(* Claims about submitting tool outputs *)

\* ids of the run's outstanding tool calls, ids the request has outputs for
Outstanding == {toolCalls[i].ID : i \in 1..Len(toolCalls)}
Supplied == {req.ToolOutputs[i] : i \in 1..Len(req.ToolOutputs)}

\* a request has been built whose outputs cover a strict subset of the
\* outstanding tool calls
PartialSubmission ==
    /\ spc \in {"built", "done"} /\ hasSubmit
    /\ Supplied \subseteq Outstanding /\ Supplied # Outstanding

\* C18 as stated: a submission whose outputs cover only a strict subset of
\* the outstanding tool-call ids is rejected with MismatchedToolCalls, and no
\* request carrying the partial set is sent.
C18_PartialSetIsRejected ==
    PartialSubmission =>
        /\ sent = <<>>
        /\ spc = "done" => subResult = "mismatched"

\* C18: a submission whose outputs cover only a strict subset of the
\* outstanding tool-call ids is not checked by the client: at most one
\* request is sent, it carries exactly the outputs supplied, it is sent
\* whenever the transport works, and the call ends with the run, the event
\* channel or the error of the transport or of the response status, never
\* with a MismatchedToolCalls condition.
C18_PartialSetIsForwarded ==
    (PartialSubmission /\ spc = "done") =>
        /\ subResult \in {"run", "events", "error"}
        /\ Len(sent) <= 1
        /\ \A i \in 1..Len(sent) : sent[i].tool_outputs = req.ToolOutputs
        /\ subResult \in {"run", "events"} => Len(sent) = 1

C18_Witness ==
    /\ step = "caller" /\ spc = "done" /\ subResult = "run"
    /\ Outstanding = {"call_A", "call_B"}
    /\ req.ToolOutputs = <<"call_A">>
    /\ Len(sent) = 1 /\ sent[1].tool_outputs = <<"call_A">>

\* a request has been built with an output for an id that is not among the
\* outstanding tool calls
UnknownOutput ==
    /\ spc \in {"built", "done"} /\ hasSubmit /\ toolCalls # <<>>
    /\ \E id \in Supplied : id \notin Outstanding

\* C19: a submission with an output for a tool-call id outside the run's
\* outstanding set is rejected or flagged with MismatchedToolCalls: the call
\* does not end without that condition, whether the output was forwarded or
\* dropped.
C19_UnknownIdIsFlagged ==
    (UnknownOutput /\ spc = "done") => subResult = "mismatched"

\* the steps that answer a required action
SubmissionSteps == {"handleRequiresAction", "submitToolOutputs", "createStreamingRun"}

\* C20: when a submission step is run on a required action, the ToolOutputs
\* it builds hold exactly one output for every tool call listed, same ids and
\* none skipped, and the whole set goes out in one request.
C20_OneOutputPerToolCall ==
    (step \in SubmissionSteps /\ hasSubmit /\ spc \in {"built", "done"}) =>
        /\ Len(req.ToolOutputs) = Len(toolCalls)
        /\ Supplied = Outstanding
        /\ Len(sent) <= 1
        /\ \A i \in 1..Len(sent) : sent[i].tool_outputs = req.ToolOutputs

\* C21: the stream flag of a submission selects the mode: with the flag
\* unset an accepted submission returns the updated Run, with the flag set it
\* returns the event sequence, and the flag sent to the server matches the
\* mode in which the response is read.
C21_FlagSelectsMode ==
    (spc = "done" /\ Len(sent) = 1) =>
        /\ ResponseKind(sent[1]) = ReadsAs(method)
        /\ (StatusOK(subStatus) /\ sent[1].stream = "absent") => subResult = "run"
        /\ (StatusOK(subStatus) /\ sent[1].stream = "true") => subResult = "events"

----------------------------------------------------------------------------
(* Claims about the driving flow *)

TerminalStatuses == {"completed", "failed", "cancelled", "expired"}

\* C22: driving a run with settle-wait and submission repeats for every
\* action cycle, so with a server that sends the required action with
\* requires_action and with nothing else, the flow finishes only holding a
\* snapshot in a terminal status, also when action is required more than
\* once.
C22_FlowEndsOnTerminalStatus ==
    (actionOn = {"requires_action"} /\ fpc = "end") =>
        run.Status \in TerminalStatuses

\* C23: every snapshot the client hands to the caller has a required action
\* if and only if its status is requires_action, and the driving flow acts
\* on the required action of no snapshot whose status is not requires_action.
C23_ActionIffRequiresAction ==
    /\ ~run.isNil => (run.RequiredAction <=> run.Status = "requires_action")
    /\ actedOn # "" => actedOn = "requires_action"

----------------------------------------------------------------------------
(* Claims about the gateways *)

Is2xx(st) == st \in 200..299

\* the operation has returned on a response whose body could be read
Answered == gpc = "returned" /\ response # NoHTTPResponse /\ ~response.readFails

\* C24: for every gateway operation, a non-success response whose body is a
\* structured error reaches the caller as an APIError with the message, type
\* and code the server sent, and no result object comes with it.
C24_StructuredErrorReachesCaller ==
    (Answered /\ ~Is2xx(response.status) /\ response.body.kind = "error_object") =>
        /\ result.kind = "apierror"
        /\ result.info = response.body.error
        /\ ~result.value

\* the body is one the operation can decode: a stream for the streaming
\* operations, the JSON object of the resource for the others
Decodable ==
    response.body = IF op \in StreamOps THEN StreamBody ELSE ObjectBody

\* C25: the transport maps a response to an error exactly when its status is
\* non-2xx: a 2xx response with a decodable body is a success result, a
\* non-2xx response is an error.
C25_ErrorIffNon2xx ==
    Answered =>
        /\ (Is2xx(response.status) /\ Decodable) => result.kind = "ok"
        /\ ~Is2xx(response.status) => result.kind # "ok"

\* the request of the call failed: no response, a status that is not
\* success, or a body that SendRequest could not read
Failed ==
    \/ response = NoHTTPResponse
    \/ ~StatusOK(response.status)
    \/ op \notin StreamOps /\ response.readFails

\* C26: no operation retries or recovers silently: a gateway call issues
\* exactly one HTTP request, and when that request fails the caller gets the
\* error, and no result, without a second attempt.
C26_NoRetry ==
    /\ [](gpc # "idle" => httpRequests = 1)
    /\ []((gpc = "returned" /\ Failed) =>
            (result.kind \notin {"ok", "none"} /\ ~result.value))
    /\ [][gpc = "called" => (gpc' = "returned" /\ httpRequests' = httpRequests)]_vars

C26_Witness ==
    /\ gpc = "returned" /\ op = "SubmitToolOutputs" /\ cpc = "none"
    /\ response = NoHTTPResponse /\ httpRequests = 1 /\ result = PlainError("send")

\* C30: in the cancel example a failed Cancel is an ordinary error: the run
\* it returned is nil, the failure is reported without using that run, and
\* the flow goes on to delete the assistant and the thread.
C30_FailedCancelGoesToCleanup ==
    /\ [](cpc = "log" => cancelRun = "nil")
    /\ [][cpc = "log" => cpc' = "delete_assistant"]_vars


----------------------------------------------------------------------------
(* Claims about event names and the end of the stream *)

\* line k comes after a blank line with no event-name line in between
FollowsBlank(ls, k) ==
    \E j \in 1..(k - 1) :
        ls[j].kind = "blank" /\ \A m \in (j + 1)..(k - 1) : ls[m].kind # "event"

\* C27 as stated: a name set by an event-name line ends at the next blank
\* line, so the event of a data line that follows a blank line without a new
\* event-name line does not carry the name of the frame before.
C27_NameEndsAtBlankLine ==
    callResult = "channel" =>
        \A i \in 1..Len(DataPart(received)) :
            i <= Len(DataIndices(lines, 1)) =>
                LET k == DataIndices(lines, 1)[i]
                IN  (~IsSentinel(lines[k]) /\ FollowsBlank(lines, k)
                        /\ NearestName(lines, k) # <<>>) =>
                        DataPart(received)[i].Event # NearestName(lines, k)

\* C27, amended: the name set by an event-name line stays in force until the
\* next event-name line and no blank line ends it: between two iterations of
\* the loop currentEvent is the name of the last event-name line read.
C27_NameEndsAtNextNameOnly ==
    (callResult = "channel" /\ pc \in {"read", "send"} /\ reads <= Len(lines)) =>
        currentEvent = NearestName(lines, reads + 1)

C27_Witness ==
    /\ pc = "read"
    /\ reads = 3
    /\ lines = <<EventLine(RunName), DataLine(<<"1">>), BlankLine>>
    /\ currentEvent = RunName
    /\ received = <<[Event |-> RunName, Data |-> <<"1">>]>>

\* C28: whatever the stream holds, the caller sees at most one event named
\* "done", nothing is delivered after it, and once it is delivered the
\* decoder only runs its deferred closes.
C28_DoneNameOnlyAtTheEnd ==
    callResult = "channel" =>
        /\ Cardinality(NamedDone(received)) <= 1
        /\ \A i \in NamedDone(received) : i = Len(received)
        /\ NamedDone(received) # {} => pc \in {"close_events", "close_body", "exited"}

\* C29: at the end of the stream the decoder adds no event: the caller has
\* the events of the newline-terminated data lines and nothing else, no
\* "done" event of the decoder's making and no "error" event, whatever bytes
\* follow the last newline, and the channel is closed.
C29_EndOfStreamIsSilent ==
    exitReason = "eof" =>
        /\ pc \in {"close_events", "close_body", "exited"}
        /\ received = WireEvents(lines)
        /\ sends = Len(received)
        /\ NamedError(received) = {}
        /\ \A i \in 1..Len(received) : received[i] # DoneEvent
        /\ pc = "exited" => chanCloses = 1

C29_Witness ==
    /\ exitReason = "eof"
    /\ pc = "exited"
    /\ chanCloses = 1
    /\ tail = DataPrefix \o DoneToken
    /\ Len(received) = 1
    /\ consumer = "finished"

====
